---------------------------- MODULE Spec2Model ----------------------------
(***************************************************************************)
(* A model of gdb/solib-target.c: the library list a target reports        *)
(* (TARGET_OBJECT_LIBRARIES), its XML handlers, the so_list built from it  *)
(* and the lazily built per-library section offset table.                  *)
(*                                                                         *)
(* Two specifications share the state:                                     *)
(*   Spec       the enumeration: fetch, the XML handlers, the so_list      *)
(*              construction, solib_target_free_so;                        *)
(*   SpecReloc  solib_target_relocate_section_addresses on one node whose  *)
(*              object file has been opened.                               *)
(***************************************************************************)
EXTENDS Integers, Sequences, FiniteSets, TLC

(***************************************************************************)
(* Bounds of the model.                                                    *)
(***************************************************************************)
\* <library> elements in one document.
MaxLibs == 2
\* <segment>/<section> children of one <library>; entries of a bases vector.
MaxBases == 2
\* Sections of an object file.
MaxSections == 3
\* Segments of an object file.
MaxSegments == 2
\* Calls of relocate_section_addresses in one run.
MaxRelocs == 2
\* Calls of solib_target_current_sos in one run.
MaxEnums == 2
\* SO_NAME_MAX_PATH_SIZE (solist.h), scaled down: the size of so_name and
\* so_original_name.
SO_NAME_MAX_PATH_SIZE == 3
\* The width of CORE_ADDR in bits, scaled down.
AddrBits == 3

AddrMod == 2 ^ AddrBits
\* ~(CORE_ADDR) 0
AddrMax == AddrMod - 1
\* (CORE_ADDR) x, and unsigned arithmetic of that width.
CoreAddr(x) == x % AddrMod

\* The null pointer, and the pointer to the object at an address.
NULL == [null |-> TRUE]
PointerTo(address) == [at |-> address]

VARIABLES
    have_libexpat,   \* build configuration: HAVE_LIBEXPAT defined
    have_warned,     \* the static of the !HAVE_LIBEXPAT parser
    pc,              \* where solib_target_current_sos and the XML parser are
    doc,             \* the part of the document the parser has read so far
    result,          \* VEC(lm_info_target_p) *result of the running parse
    xml_error,       \* the message of gdb_xml_error, "" when none was raised
    lm_info,         \* the live lm_info_target objects, by address
    section_offsets, \* the live xzalloc'ed struct section_offsets, by address
    so_list,         \* the so_list nodes the caller holds, in list order
    target_sections, \* per node, the target_section of each section of abfd
    warnings,        \* warning () calls so far, by message
    internal_error,  \* a gdb_assert has failed
    num_enums,       \* calls of solib_target_current_sos so far
    num_relocs,      \* calls of relocate_section_addresses so far
    current_target_so_ops, \* the target_so_ops in use by default
    reads_past_end   \* a vector was read at an index it does not have

vars == << current_target_so_ops, reads_past_end, have_libexpat, have_warned, pc, doc, result, xml_error, lm_info,
           section_offsets, so_list, target_sections, warnings,
           internal_error, num_enums, num_relocs >>

Range(s) == { s[i] : i \in 1..Len(s) }

Max(S) == CHOOSE x \in S : \A y \in S : y <= x

\* The address operator new / xzalloc returns: one no live object has.
NewAddress(heap) == IF DOMAIN heap = {} THEN 1 ELSE Max(DOMAIN heap) + 1

\* heap with the object obj placed at address a.
Allocate(heap, a, obj) ==
    [x \in DOMAIN heap \cup {a} |-> IF x = a THEN obj ELSE heap[x]]

\* heap without the objects at the addresses in as.
Release(heap, as) == [x \in DOMAIN heap \ as |-> heap[x]]

(***************************************************************************)
(* The documents.                                                          *)
(***************************************************************************)
VersionUnread == "unread"
VersionAbsent == "absent"
Versions == {VersionAbsent, "1.0", "2.0"}

\* A library name of n characters; character i is the code i (never NUL).
NameOfLen(n) == [i \in 1..n |-> i]
\* The names a document gives: the empty one, and those around the size of
\* the buffers (one shorter, as long, one longer).
MaxNameLen == SO_NAME_MAX_PATH_SIZE + 1
Names ==
    { NameOfLen(n) : n \in {0} \cup (SO_NAME_MAX_PATH_SIZE - 1)..MaxNameLen }

\* The value of the address attribute of child c of library l: a different
\* one for every child of a library and for neighbouring libraries.
AddressAttribute(l, c) == 2 * l + c

EmptyDoc == [version |-> VersionUnread, libs |-> << >>]

WarnNoXml == "Can not parse XML library list"
WarnAllocCount == "wrong number of ALLOC sections"
WarnNoSegments == "no segments"
WarnBadOffsets == "bad offsets"
WarningKinds == {WarnNoXml, WarnAllocCount, WarnNoSegments, WarnBadOffsets}

ErrMixed == "Library list with both segments and sections"
ErrNoBases == "No segment or section bases defined"
ErrVersion == "Library list has unsupported version"
ErrSyntax == "XML syntax or DTD error"

Warn(w, kind) == [w EXCEPT ![kind] = @ + 1]

(***************************************************************************)
(* struct lm_info_target                                                   *)
(***************************************************************************)
new_lm_info_target ==
    [name |-> << >>, segment_bases |-> << >>, section_bases |-> << >>,
     offsets |-> NULL]

\* VEC_last (lm_info_target_p, *list)
VEC_last(list) == list[Len(list)]

(***************************************************************************)
(* so_name / so_original_name: char[SO_NAME_MAX_PATH_SIZE]                 *)
(***************************************************************************)
\* A zeroed buffer, as XCNEW leaves it.
ZeroBuffer == [i \in 1..SO_NAME_MAX_PATH_SIZE |-> 0]

\* strncpy (dst, src, n): the first n characters of src, NUL-padded to n.
strncpy(dst, src, n) ==
    [i \in 1..Len(dst) |->
        IF i <= n THEN (IF i <= Len(src) THEN src[i] ELSE 0) ELSE dst[i]]

\* The C string a buffer holds: the characters before the first NUL.
RECURSIVE CString(_)
CString(buf) ==
    IF buf = << >> \/ Head(buf) = 0 THEN << >>
    ELSE << Head(buf) >> \o CString(Tail(buf))

\* CopyName with one character too few copied.
CopyNameShort(name) ==
    [strncpy(ZeroBuffer, name, SO_NAME_MAX_PATH_SIZE - 2)
        EXCEPT ![SO_NAME_MAX_PATH_SIZE] = 0]

\* strncpy (buf, name, SO_NAME_MAX_PATH_SIZE - 1);
\* buf[SO_NAME_MAX_PATH_SIZE - 1] = '\0';
\* The C index SO_NAME_MAX_PATH_SIZE - 1 is the buffer's last character.
CopyName(name) ==
    [strncpy(ZeroBuffer, name, SO_NAME_MAX_PATH_SIZE - 1)
        EXCEPT ![SO_NAME_MAX_PATH_SIZE] = 0]


(***************************************************************************)
(* solib_target_parse_libraries without HAVE_LIBEXPAT, as called by        *)
(* solib_target_current_sos: warn once, return NULL; current_sos then      *)
(* returns NULL.                                                           *)
(***************************************************************************)
\* NeedsWarning without the latch: every call warns.
NeedsWarningAlways(warned) == TRUE

\* if (!have_warned)
NeedsWarning(warned) == ~warned

parse_libraries_no_expat ==
    /\ pc = "idle"
    /\ ~have_libexpat
    /\ so_list = << >>
    /\ num_enums < MaxEnums
    /\ num_enums' = num_enums + 1
    /\ IF NeedsWarning(have_warned)
       THEN /\ have_warned' = TRUE
            /\ warnings' = Warn(warnings, WarnNoXml)
       ELSE UNCHANGED << have_warned, warnings >>
    /\ UNCHANGED << current_target_so_ops, reads_past_end,
                    have_libexpat, pc, doc, result, xml_error, lm_info,
                    section_offsets, so_list, target_sections,
                    internal_error, num_relocs >>

(***************************************************************************)
(* solib_target_current_sos, up to the call of the parser.  The caller     *)
(* asks for the list again once it has released the nodes of the list it   *)
(* was given before (so_list empty), at most MaxEnums times.               *)
(***************************************************************************)
\* target_read_stralloc returns no document: return NULL.
current_sos_no_document ==
    /\ pc = "idle"
    /\ so_list = << >>
    /\ num_enums < MaxEnums
    /\ num_enums' = num_enums + 1
    /\ doc' = EmptyDoc
    /\ xml_error' = ""
    /\ UNCHANGED << current_target_so_ops, reads_past_end,
                    have_libexpat, have_warned, pc, result, lm_info,
                    section_offsets, so_list, target_sections, warnings,
                    internal_error, num_relocs >>

\* A document was read: solib_target_parse_libraries starts with an empty
\* result and the cleanup installed, and hands the document to the parser.
current_sos_parse ==
    /\ pc = "idle"
    /\ have_libexpat
    /\ so_list = << >>
    /\ num_enums < MaxEnums
    /\ num_enums' = num_enums + 1
    /\ doc' = EmptyDoc
    /\ xml_error' = ""
    /\ result' = << >>
    /\ pc' = "root"
    /\ UNCHANGED << current_target_so_ops, reads_past_end,
                    have_libexpat, have_warned, lm_info, section_offsets,
                    so_list, target_sections, warnings, internal_error,
                    num_relocs >>

(***************************************************************************)
(* The element handlers.  gdb_xml_error throws: the handler stops there    *)
(* and the parse fails.                                                    *)
(***************************************************************************)
gdb_xml_error(msg) ==
    /\ xml_error' = msg
    /\ pc' = "failed"

\* VersionRejected without the test for an omitted attribute.
VersionRejectedNoNull(version) == version # "1.0"

\* version != NULL && strcmp (string, "1.0") != 0
VersionRejected(version) == version # VersionAbsent /\ version # "1.0"

library_list_start_list(version) ==
    /\ pc = "root"
    /\ doc' = [doc EXCEPT !.version = version]
    /\ IF VersionRejected(version)
       THEN gdb_xml_error(ErrVersion)
       ELSE /\ pc' = "list"
            /\ UNCHANGED xml_error
    /\ UNCHANGED << current_target_so_ops, reads_past_end,
                    have_libexpat, have_warned, result, lm_info,
                    section_offsets, so_list, target_sections, warnings,
                    internal_error, num_enums, num_relocs >>

\* VEC_safe_push (lm_info_target_p, *list, item)
VEC_safe_push(list, item) == Append(list, item)

library_list_start_library(name) ==
    /\ pc = "list"
    /\ Len(doc.libs) < MaxLibs
    /\ doc' = [doc EXCEPT !.libs = Append(@, [name |-> name, children |-> << >>,
                                              closed |-> FALSE])]
    /\ LET item == NewAddress(lm_info)
       IN  /\ lm_info' = Allocate(lm_info, item,
                                  [new_lm_info_target EXCEPT !.name = name])
           /\ result' = VEC_safe_push(result, item)
    /\ pc' = "library"
    /\ UNCHANGED << current_target_so_ops, reads_past_end,
                    have_libexpat, have_warned, xml_error, section_offsets,
                    so_list, target_sections, warnings, internal_error,
                    num_enums, num_relocs >>

\* The document read so far, with one more child of the open <library>.
WithChild(d, kind, address) ==
    [d EXCEPT !.libs[Len(d.libs)].children =
                  Append(@, [kind |-> kind, address |-> address])]

NumChildren(d) == Len(d.libs[Len(d.libs)].children)

\* SegmentRejected looking at the wrong vector.
SegmentRejectedWrongVector(last) == last.segment_bases # << >>

\* !last->section_bases.empty ()
SegmentRejected(last) == last.section_bases # << >>

library_list_start_segment(address) ==
    /\ pc = "library"
    /\ NumChildren(doc) < MaxBases
    /\ doc' = WithChild(doc, "segment", address)
    /\ LET last == VEC_last(result)
       IN  IF SegmentRejected(lm_info[last])
           THEN /\ gdb_xml_error(ErrMixed)
                /\ UNCHANGED lm_info
           ELSE /\ lm_info' = [lm_info EXCEPT ![last].segment_bases =
                                   Append(@, CoreAddr(address))]
                /\ UNCHANGED << pc, xml_error >>
    /\ UNCHANGED << current_target_so_ops, reads_past_end,
                    have_libexpat, have_warned, result, section_offsets,
                    so_list, target_sections, warnings, internal_error,
                    num_enums, num_relocs >>

\* !last->segment_bases.empty ()
SectionRejected(last) == last.segment_bases # << >>

library_list_start_section(address) ==
    /\ pc = "library"
    /\ NumChildren(doc) < MaxBases
    /\ doc' = WithChild(doc, "section", address)
    /\ LET last == VEC_last(result)
       IN  IF SectionRejected(lm_info[last])
           THEN /\ gdb_xml_error(ErrMixed)
                /\ UNCHANGED lm_info
           ELSE /\ lm_info' = [lm_info EXCEPT ![last].section_bases =
                                   Append(@, CoreAddr(address))]
                /\ UNCHANGED << pc, xml_error >>
    /\ UNCHANGED << current_target_so_ops, reads_past_end,
                    have_libexpat, have_warned, result, section_offsets,
                    so_list, target_sections, warnings, internal_error,
                    num_enums, num_relocs >>

\* LibraryRejected with the test left out: every library is accepted.
LibraryRejectedNever(li) == FALSE

\* lm_info->segment_bases.empty () && lm_info->section_bases.empty ()
LibraryRejected(li) == li.segment_bases = << >> /\ li.section_bases = << >>

library_list_end_library ==
    /\ pc = "library"
    /\ doc' = [doc EXCEPT !.libs[Len(doc.libs)].closed = TRUE]
    /\ IF LibraryRejected(lm_info[VEC_last(result)])
       THEN gdb_xml_error(ErrNoBases)
       ELSE /\ pc' = "list"
            /\ UNCHANGED xml_error
    /\ UNCHANGED << current_target_so_ops, reads_past_end,
                    have_libexpat, have_warned, result, lm_info,
                    section_offsets, so_list, target_sections, warnings,
                    internal_error, num_enums, num_relocs >>

\* The XML layer itself rejects the document (not well formed, not valid
\* against library-list.dtd, an address that is no number): it raises the
\* error as the handlers do.
xml_syntax_error ==
    /\ pc \in {"root", "list", "library"}
    /\ gdb_xml_error(ErrSyntax)
    /\ UNCHANGED << current_target_so_ops, reads_past_end,
                    have_libexpat, have_warned, doc, result, lm_info,
                    section_offsets, so_list, target_sections, warnings,
                    internal_error, num_enums, num_relocs >>

(***************************************************************************)
(* solib_target_parse_libraries, after gdb_xml_parse_quick.                *)
(***************************************************************************)
\* FreeLibraryList that frees the vector and none of its members.
FreeLibraryListOnlyVector(heap, list) == heap

\* solib_target_free_library_list: delete every record of the list.
FreeLibraryList(heap, list) == Release(heap, Range(list))

\* gdb_xml_parse_quick failed: do_cleanups, return NULL; current_sos
\* returns NULL.
parse_libraries_fail ==
    /\ pc = "failed"
    /\ lm_info' = FreeLibraryList(lm_info, result)
    /\ result' = << >>
    /\ pc' = "idle"
    /\ UNCHANGED << current_target_so_ops, reads_past_end,
                    have_libexpat, have_warned, doc, xml_error,
                    section_offsets, so_list, target_sections, warnings,
                    internal_error, num_enums, num_relocs >>

\* The end of the document: gdb_xml_parse_quick returns 0, the cleanup is
\* discarded and the result is returned.
parse_libraries_succeed ==
    /\ pc = "list"
    /\ pc' = "parsed"
    /\ UNCHANGED << current_target_so_ops, reads_past_end,
                    have_libexpat, have_warned, doc, result, xml_error,
                    lm_info, section_offsets, so_list, target_sections,
                    warnings, internal_error, num_enums, num_relocs >>

(***************************************************************************)
(* solib_target_current_sos: the so_list built from the parsed list.       *)
(***************************************************************************)
\* XCNEW (struct so_list) with the names and lm_info set.
NewSolib(info, name) ==
    [so_name |-> CopyName(name), so_original_name |-> CopyName(name),
     lm_info |-> info, addr_low |-> 0, addr_high |-> 0, abfd |-> NULL]

\* AddToList that links the new node in front.
AddToListFront(list, new_solib) == << new_solib >> \o list

\* if (!start) last = start = new_solib;
\* else { last->next = new_solib; last = new_solib; }
AddToList(list, new_solib) == Append(list, new_solib)

\* The loop over library_list, from entry ix on.
RECURSIVE BuildList(_, _, _, _)
BuildList(library_list, heap, ix, start) ==
    IF ix > Len(library_list) THEN start
    ELSE BuildList(library_list, heap, ix + 1,
                   AddToList(start,
                             NewSolib(library_list[ix],
                                      heap[library_list[ix]].name)))

\* ClearNames that clears nothing: the records keep their names.
ClearNamesNone(heap, library_list) == heap

\* info->name.clear () for every entry of the list.
ClearNames(heap, library_list) ==
    [a \in DOMAIN heap |->
        IF a \in Range(library_list) THEN [heap[a] EXCEPT !.name = << >>]
        ELSE heap[a]]

current_sos_build ==
    /\ pc = "parsed"
    /\ so_list' = BuildList(result, lm_info, 1, << >>)
    /\ lm_info' = ClearNames(lm_info, result)
    /\ target_sections' = [k \in 1..Len(result) |-> << >>]
    /\ result' = << >>
    /\ pc' = "idle"
    /\ UNCHANGED << current_target_so_ops, reads_past_end,
                    have_libexpat, have_warned, doc, xml_error,
                    section_offsets, warnings, internal_error, num_enums,
                    num_relocs >>

(***************************************************************************)
(* solib_target_free_so, and the caller's release of the node.             *)
(***************************************************************************)
RemoveAt(s, k) == [i \in 1..(Len(s) - 1) |-> IF i < k THEN s[i] ELSE s[i + 1]]

solib_target_free_so(k) ==
    /\ pc = "idle"
    /\ k \in 1..Len(so_list)
    /\ LET li == so_list[k].lm_info
       IN  IF lm_info[li].name = << >>
           THEN \* delete li; the caller then frees the node itself.
                /\ lm_info' = Release(lm_info, {li})
                /\ so_list' = RemoveAt(so_list, k)
                /\ target_sections' = RemoveAt(target_sections, k)
                /\ UNCHANGED internal_error
           ELSE \* gdb_assert (li->name.empty ()) fails.
                /\ internal_error' = TRUE
                /\ UNCHANGED << lm_info, so_list, target_sections >>
    /\ UNCHANGED << current_target_so_ops, reads_past_end,
                    have_libexpat, have_warned, pc, doc, result, xml_error,
                    section_offsets, warnings, num_enums, num_relocs >>

(***************************************************************************)
(* The object file of a library (so->abfd), as the object-file layer       *)
(* shows it: its sections in native order, each with its SEC_ALLOC flag    *)
(* and its size, and its segment data (NULL when it has none).             *)
(***************************************************************************)
\* gdb_bfd_count_sections (so->abfd)
gdb_bfd_count_sections(abfd) == Len(abfd.sections)

\* xzalloc (SIZEOF_N_SECTION_OFFSETS (num_sections))
ZeroOffsets(num_sections) == [offsets |-> [i \in 1..num_sections |-> 0]]

\* vec[i] for the C index i (from 0); past the end of the vector the read
\* is undefined and yields the value beyond.
ReadAt(vec, i, beyond) == IF i + 1 <= Len(vec) THEN vec[i + 1] ELSE beyond

\* vec[i] reads past the end of the vector: operator[] does not check.
PastEnd(vec, i) == i >= Len(vec)

\* The number of sections of the file with SEC_ALLOC set.
RECURSIVE CountAlloc(_)
CountAlloc(sections) ==
    IF sections = << >> THEN 0
    ELSE (IF Head(sections).alloc THEN 1 ELSE 0) + CountAlloc(Tail(sections))

\* AllocMismatch that only notices too few SEC_ALLOC sections.
AllocMismatchTooFew(abfd, li) == CountAlloc(abfd.sections) < Len(li.section_bases)

\* num_alloc_sections != li->section_bases.size ()
AllocMismatch(abfd, li) == CountAlloc(abfd.sections) # Len(li.section_bases)

\* low = li->section_bases[i]: the base the range of section i (C index)
\* is computed from, bases_index being the number of SEC_ALLOC sections
\* before it.
RangeBase(bases, i, bases_index, beyond) == ReadAt(bases, i, beyond)

\* li->offsets->offsets[i] = li->section_bases[bases_index]
OffsetBase(bases, i, bases_index, beyond) == ReadAt(bases, bases_index, beyond)

\* The second loop of the section branch, from section i (C index) on.
\* st holds addr_low, addr_high, found_range, bases_index, the offsets
\* and past_end, set by a read of section_bases at an index it lacks;
\* st.failed is set when the gdb_assert inside the loop fails, which ends
\* the call there.  beyond[i] is what a read past section_bases yields in
\* iteration i.
RECURSIVE SectionLoop(_, _, _, _, _)
SectionLoop(sections, bases, beyond, i, st) ==
    IF i >= Len(sections) THEN st
    ELSE LET sect == sections[i + 1] IN
         IF ~sect.alloc
         THEN SectionLoop(sections, bases, beyond, i + 1, st)
         ELSE LET low == RangeBase(bases, i, st.bases_index, beyond[i + 1])
                  high == CoreAddr(low + sect.size - 1)
                  ranged ==
                      IF sect.size > 0
                      THEN [st EXCEPT
                               !.addr_low = IF low < @ THEN low ELSE @,
                               !.addr_high = IF high > @ THEN high ELSE @,
                               !.found_range = TRUE,
                               !.past_end = @ \/ PastEnd(bases, i)]
                      ELSE st
              IN  IF sect.size > 0 /\ ranged.addr_low > ranged.addr_high
                  THEN [ranged EXCEPT !.failed = TRUE]
                  ELSE SectionLoop(sections, bases, beyond, i + 1,
                           [ranged EXCEPT
                               !.offsets[i + 1] =
                                   OffsetBase(bases, i, st.bases_index,
                                              beyond[i + 1]),
                               !.past_end =
                                   @ \/ PastEnd(bases, st.bases_index),
                               !.bases_index = @ + 1])

\* The section branch with a matching count: the range and the offsets.
SectionBranch(abfd, li, beyond) ==
    LET st == SectionLoop(abfd.sections, li.section_bases, beyond, 0,
                  [addr_low |-> AddrMax, addr_high |-> 0,
                   found_range |-> FALSE, bases_index |-> 0,
                   offsets |-> ZeroOffsets(Len(abfd.sections)).offsets,
                   failed |-> FALSE, past_end |-> FALSE])
    IN  IF st.failed \/ st.found_range THEN st
        ELSE [st EXCEPT !.addr_low = 0, !.addr_high = 0]

(***************************************************************************)
(* The segment branch.                                                     *)
(***************************************************************************)
\* The segment section i (from 1) of a file with n segments is loaded in:
\* data->segment_info.
SegmentOf(i, n) == ((i - 1) % n) + 1

\* symfile_map_offsets_to_segments, when it succeeds: every section gets
\* the delta of its segment, the last reported base standing for the
\* segments that have none.
MapOffsetsToSegments(abfd, data, segment_bases) ==
    [i \in 1..Len(abfd.sections) |->
        LET which == SegmentOf(i, Len(data.segment_bases))
            used == IF which > Len(segment_bases) THEN Len(segment_bases)
                    ELSE which
        IN  CoreAddr(segment_bases[used] - data.segment_bases[used] + AddrMod)]

\* li->segment_bases[i] - data->segment_bases[i], i a C index.
SegmentDelta(li, data, i) ==
    CoreAddr(li.segment_bases[i + 1] - data.segment_bases[i + 1] + AddrMod)

\* RunEnd without the break: the loop always runs to the last segment.
RunEndNoBreak(li, data, orig_delta, i) == Max({i, Len(data.segment_bases)})

\* The value of i when the loop over the file's segments ends, entered
\* with the C index i.
RECURSIVE RunEnd(_, _, _, _)
RunEnd(li, data, orig_delta, i) ==
    IF i >= Len(data.segment_bases) THEN i
    ELSE IF i >= Len(li.segment_bases)
         THEN RunEnd(li, data, orig_delta, i + 1)
         ELSE IF SegmentDelta(li, data, i) # orig_delta THEN i
              ELSE RunEnd(li, data, orig_delta, i + 1)

\* so->addr_high of the segment branch, i being the loop's final index.
SegmentHigh(data, orig_delta, i) ==
    CoreAddr(data.segment_bases[i] + data.segment_sizes[i] + orig_delta)

(***************************************************************************)
(* solib_target_relocate_section_addresses (so, sec): node n of the list,  *)
(* sec the target section of section j (from 1) of so->abfd.               *)
(***************************************************************************)
\* NeedsOffsets without the test: the table is rebuilt by every call.
NeedsOffsetsAlways(li) == TRUE

\* li->offsets == NULL
NeedsOffsets(li) == li.offsets = NULL

\* What the first call computes: the offsets, the node's range, the
\* warning issued (if any) and whether a gdb_assert failed.
BuildOffsets(so, li, beyond) ==
    LET abfd == so.abfd
        zero == ZeroOffsets(gdb_bfd_count_sections(abfd)).offsets
        keep == [offsets |-> zero, addr_low |-> so.addr_low,
                 addr_high |-> so.addr_high, warning |-> "",
                 failed |-> FALSE, past_end |-> FALSE]
    IN  IF li.section_bases # << >>
        THEN IF AllocMismatch(abfd, li)
             THEN [keep EXCEPT !.warning = WarnAllocCount]
             ELSE LET st == SectionBranch(abfd, li, beyond)
                  IN  [keep EXCEPT !.offsets = st.offsets,
                                   !.addr_low = st.addr_low,
                                   !.addr_high = st.addr_high,
                                   !.failed = st.failed,
                                   !.past_end = st.past_end]
        ELSE IF li.segment_bases # << >>
        THEN LET data == abfd.segment_data IN
             IF data = NULL
             THEN [keep EXCEPT !.warning = WarnNoSegments]
             ELSE LET orig_delta == SegmentDelta(li, data, 0)
                      i == RunEnd(li, data, orig_delta, 1)
                      low == li.segment_bases[1]
                      high == SegmentHigh(data, orig_delta, i)
                  IN  [keep EXCEPT
                          !.offsets =
                              IF abfd.map_ok
                              THEN MapOffsetsToSegments(abfd, data,
                                                        li.segment_bases)
                              ELSE zero,
                          !.warning =
                              IF abfd.map_ok THEN "" ELSE WarnBadOffsets,
                          !.addr_low = low,
                          !.addr_high = high,
                          !.failed = low > high]
        ELSE keep

\* What the reads past the end of section_bases of one call can yield,
\* iteration by iteration of the section loop: any value in an iteration
\* that can read past the end (a first call for a library with section
\* bases, a SEC_ALLOC section at a C index the vector does not have), and
\* nothing to choose elsewhere.
Beyond(so, li) ==
    { f \in [1..MaxSections -> {0, AddrMax}] :
        \A k \in 1..MaxSections :
            f[k] # 0 =>
                /\ li.offsets = NULL
                /\ li.section_bases # << >>
                /\ k \in 1..Len(so.abfd.sections)
                /\ so.abfd.sections[k].alloc
                /\ k > Len(li.section_bases) }

\* AddOffset that moves the start of the section only.
AddOffsetStartOnly(sec, offset) == [sec EXCEPT !.addr = CoreAddr(@ + offset)]

\* sec->addr += offset; sec->endaddr += offset;
AddOffset(sec, offset) ==
    [sec EXCEPT !.addr = CoreAddr(@ + offset),
                !.endaddr = CoreAddr(@ + offset)]

solib_target_relocate_section_addresses(n, j, beyond) ==
    /\ pc = "idle"
    /\ num_relocs < MaxRelocs
    /\ n \in 1..Len(so_list)
    /\ so_list[n].abfd # NULL
    /\ j \in 1..Len(so_list[n].abfd.sections)
    /\ num_relocs' = num_relocs + 1
    /\ LET so == so_list[n]
           li == lm_info[so.lm_info]
       IN  IF NeedsOffsets(li)
           THEN LET built == BuildOffsets(so, li, beyond)
                    table == NewAddress(section_offsets)
                IN  /\ section_offsets' =
                           Allocate(section_offsets, table,
                                    [offsets |-> built.offsets])
                    /\ lm_info' =
                           [lm_info EXCEPT ![so.lm_info].offsets = PointerTo(table)]
                    /\ so_list' =
                           [so_list EXCEPT ![n].addr_low = built.addr_low,
                                           ![n].addr_high = built.addr_high]
                    /\ warnings' =
                           IF built.warning = "" THEN warnings
                           ELSE Warn(warnings, built.warning)
                    /\ reads_past_end' = (reads_past_end \/ built.past_end)
                    /\ IF built.failed
                       THEN /\ internal_error' = TRUE
                            /\ UNCHANGED target_sections
                       ELSE /\ UNCHANGED internal_error
                            /\ target_sections' =
                                   [target_sections EXCEPT
                                       ![n][j] =
                                           AddOffset(@, built.offsets[j])]
           ELSE LET offset == section_offsets[li.offsets.at].offsets[j]
                IN  /\ target_sections' =
                           [target_sections EXCEPT
                               ![n][j] = AddOffset(@, offset)]
                    /\ UNCHANGED << section_offsets, lm_info, so_list,
                                    warnings, internal_error,
                                    reads_past_end >>
    /\ UNCHANGED << current_target_so_ops, have_libexpat, have_warned, pc,
                    doc, result, xml_error, num_enums >>

(***************************************************************************)
(* The registration, and the operations that do nothing.                   *)
(***************************************************************************)
\* struct target_so_ops solib_target_so_ops, and the target_so_ops of
\* another implementation.
solib_target_so_ops == "solib_target_so_ops"
other_so_ops == "other_so_ops"

\* RegisterIfUnset that registers whatever is in use.
RegisterAlways(current) == PointerTo(solib_target_so_ops)

\* if (current_target_so_ops == 0)
\*   current_target_so_ops = &solib_target_so_ops;
RegisterIfUnset(current) ==
    IF current = NULL THEN PointerTo(solib_target_so_ops) ELSE current

\* _initialize_solib_target, run once when the debugger starts.
initialize_solib_target ==
    /\ pc = "startup"
    /\ pc' = "idle"
    /\ current_target_so_ops' = RegisterIfUnset(current_target_so_ops)
    /\ UNCHANGED << have_libexpat, have_warned, doc, result, xml_error,
                    lm_info, section_offsets, so_list, target_sections,
                    warnings, internal_error, num_enums, num_relocs,
                    reads_past_end >>

\* Nothing needed.
solib_target_solib_create_inferior_hook ==
    /\ pc = "idle"
    /\ UNCHANGED vars

\* Nothing needed.
solib_target_clear_solib ==
    /\ pc = "idle"
    /\ UNCHANGED vars

(***************************************************************************)
(* The enumeration: any number of documents, one after the other.          *)
(***************************************************************************)
InitCommon ==
    /\ have_warned = FALSE
    /\ reads_past_end = FALSE
    /\ doc = EmptyDoc
    /\ result = << >>
    /\ xml_error = ""
    /\ warnings = [k \in WarningKinds |-> 0]
    /\ internal_error = FALSE
    /\ num_enums = 0
    /\ num_relocs = 0

Init ==
    /\ InitCommon
    /\ pc = "idle"
    /\ current_target_so_ops = PointerTo(solib_target_so_ops)
    /\ have_libexpat \in BOOLEAN
    /\ lm_info = << >>
    /\ section_offsets = << >>
    /\ so_list = << >>
    /\ target_sections = << >>

Next ==
    \/ parse_libraries_no_expat
    \/ current_sos_no_document
    \/ current_sos_parse
    \/ \E version \in Versions : library_list_start_list(version)
    \/ \E name \in Names : library_list_start_library(name)
    \/ library_list_start_segment(
           AddressAttribute(Len(doc.libs), NumChildren(doc) + 1))
    \/ library_list_start_section(
           AddressAttribute(Len(doc.libs), NumChildren(doc) + 1))
    \/ library_list_end_library
    \/ xml_syntax_error
    \/ parse_libraries_fail
    \/ parse_libraries_succeed
    \/ current_sos_build
    \/ \E k \in 1..Len(so_list) : solib_target_free_so(k)

Spec == Init /\ [][Next]_vars

(***************************************************************************)
(* The relocation: one node of the list, as solib_target_current_sos       *)
(* built it, with its object file opened and the target sections of the    *)
(* file read from it; then calls for the sections, in any order.           *)
(***************************************************************************)
\* The sequences over S of 1 to n elements.
SeqsUpTo(S, n) == UNION { [1..k -> S] : k \in 1..n }

\* The base addresses a target reports.
ReportedBases == {1, 2, AddrMax}
\* The sizes of the sections of a file.
SectionSizes == {0, 2}
\* The bases and sizes of the segments of a file.
FileSegmentBases == {0, 1}
FileSegmentSizes == {1, 2}

Sections == [alloc : BOOLEAN, size : SectionSizes]

SegmentData ==
    UNION { [segment_bases : [1..k -> FileSegmentBases],
             segment_sizes : [1..k -> FileSegmentSizes]] : k \in 1..MaxSegments }

\* The files of a library with section bases: the segment data is not
\* looked at.
SectionFiles ==
    [sections : SeqsUpTo(Sections, MaxSections), segment_data : {NULL},
     map_ok : {TRUE}]

\* The files of a library with segment bases: the flags and sizes of the
\* sections are not looked at; map_ok is what
\* symfile_map_offsets_to_segments will return.
SegmentFiles ==
    [sections : { [i \in 1..k |-> [alloc |-> TRUE, size |-> 2]] :
                     k \in 1..MaxSections },
     segment_data : SegmentData \cup {NULL},
     map_ok : BOOLEAN]

\* The target sections of a file: section j lies at j in the file.
TargetSections(abfd) ==
    [j \in 1..Len(abfd.sections) |->
        [addr |-> CoreAddr(j), endaddr |-> CoreAddr(j + abfd.sections[j].size)]]

InitReloc ==
    /\ InitCommon
    /\ pc = "idle"
    /\ current_target_so_ops = PointerTo(solib_target_so_ops)
    /\ have_libexpat = TRUE
    /\ section_offsets = << >>
    /\ \E bases \in SeqsUpTo(ReportedBases, MaxBases) :
         \/ /\ lm_info = << [new_lm_info_target EXCEPT !.section_bases = bases] >>
            /\ \E abfd \in SectionFiles :
                 /\ so_list = << [NewSolib(1, NameOfLen(1)) EXCEPT !.abfd = abfd] >>
                 /\ target_sections = << TargetSections(abfd) >>
         \/ /\ lm_info = << [new_lm_info_target EXCEPT !.segment_bases = bases] >>
            /\ \E abfd \in SegmentFiles :
                 /\ so_list = << [NewSolib(1, NameOfLen(1)) EXCEPT !.abfd = abfd] >>
                 /\ target_sections = << TargetSections(abfd) >>

NextReloc ==
    \E n \in 1..Len(so_list) :
        \E j \in 1..Len(so_list[n].abfd.sections) :
            \E beyond \in Beyond(so_list[n], lm_info[so_list[n].lm_info]) :
                solib_target_relocate_section_addresses(n, j, beyond)

SpecReloc == InitReloc /\ [][NextReloc]_vars

(***************************************************************************)
(* The life of a list: enumerations of documents with one name, no version *)
(* and one base for each library, the caller opening the object file of a  *)
(* node, relocations of the sections of the opened files, and the release  *)
(* of the nodes.                                                           *)
(***************************************************************************)
\* The name of the libraries and the version of the documents.
LifeName == NameOfLen(1)
LifeVersion == VersionAbsent

\* The file of a library with section bases: one SEC_ALLOC section of
\* size 2 for each base, then a section without SEC_ALLOC; of a library
\* with segment bases: two sections in one segment at 0 of size 1, which
\* the bases map to.
LifeFile(li) ==
    IF li.section_bases # << >>
    THEN [sections |-> [i \in 1..(Len(li.section_bases) + 1) |->
                           [alloc |-> i <= Len(li.section_bases),
                            size |-> IF i <= Len(li.section_bases) THEN 2
                                     ELSE 0]],
          segment_data |-> NULL, map_ok |-> TRUE]
    ELSE [sections |-> << [alloc |-> TRUE, size |-> 2],
                          [alloc |-> TRUE, size |-> 2] >>,
          segment_data |-> [segment_bases |-> << 0 >>,
                            segment_sizes |-> << 1 >>],
          map_ok |-> TRUE]

\* The nodes of the list whose object file is open.
Opened == { n \in 1..Len(so_list) : so_list[n].abfd # NULL }

\* The caller opens the object file of node n and reads its target
\* sections; it then calls the relocation for them.
solib_map_sections(n) ==
    /\ pc = "idle"
    /\ n \in 1..Len(so_list)
    /\ so_list[n].abfd = NULL
    /\ LET abfd == LifeFile(lm_info[so_list[n].lm_info])
       IN  /\ so_list' = [so_list EXCEPT ![n].abfd = abfd]
           /\ target_sections' =
                  [target_sections EXCEPT ![n] = TargetSections(abfd)]
    /\ UNCHANGED << current_target_so_ops, reads_past_end,
                    have_libexpat, have_warned, pc, doc, result, xml_error,
                    lm_info, section_offsets, warnings, internal_error,
                    num_enums, num_relocs >>

InitLife ==
    /\ InitCommon
    /\ pc = "startup"
    /\ current_target_so_ops \in {NULL, PointerTo(other_so_ops)}
    /\ have_libexpat = TRUE
    /\ lm_info = << >>
    /\ section_offsets = << >>
    /\ so_list = << >>
    /\ target_sections = << >>

NextLife ==
    \/ initialize_solib_target
    \/ solib_target_solib_create_inferior_hook
    \/ solib_target_clear_solib
    \/ current_sos_parse
    \/ library_list_start_list(LifeVersion)
    \/ library_list_start_library(LifeName)
    \/ /\ pc = "library"
       /\ NumChildren(doc) = 0
       /\ library_list_start_segment(AddressAttribute(Len(doc.libs), 1))
    \/ /\ pc = "library"
       /\ NumChildren(doc) = 0
       /\ library_list_start_section(AddressAttribute(Len(doc.libs), 1))
    \/ library_list_end_library
    \/ parse_libraries_fail
    \/ parse_libraries_succeed
    \/ current_sos_build
    \/ \E n \in 1..Len(so_list) : solib_map_sections(n)
    \/ \E n \in Opened :
          \E j \in 1..Len(so_list[n].abfd.sections) :
              \E beyond \in Beyond(so_list[n], lm_info[so_list[n].lm_info]) :
                  solib_target_relocate_section_addresses(n, j, beyond)
    \/ \E k \in 1..Len(so_list) : solib_target_free_so(k)

SpecLife == InitLife /\ [][NextLife]_vars

(***************************************************************************)
(* The properties of the enumeration, under Spec.                          *)
(***************************************************************************)
\* The addresses of the children of a library element, in document order.
ChildAddresses(lib) == [c \in 1..Len(lib.children) |-> lib.children[c].address]

ChildKinds(lib) == { lib.children[c].kind : c \in 1..Len(lib.children) }

\* A library element with children of both kinds.
MixedLibrary(lib) == ChildKinds(lib) = {"segment", "section"}

\* A description the schema of the handlers accepts, as far as it was read.
ValidDescription(d) ==
    /\ d.version \in {VersionAbsent, "1.0"}
    /\ \A l \in 1..Len(d.libs) :
          /\ ~MixedLibrary(d.libs[l])
          /\ d.libs[l].closed => d.libs[l].children # << >>

\* The record at address a holds what library element lib said.
RecordOf(rec, lib) ==
    /\ ChildKinds(lib) = {"segment"} =>
          rec.segment_bases = ChildAddresses(lib) /\ rec.section_bases = << >>
    /\ ChildKinds(lib) = {"section"} =>
          rec.section_bases = ChildAddresses(lib) /\ rec.segment_bases = << >>

\* C1: when solib_target_current_sos builds its list from a parsed
\* description of N libraries (N >= 0), the list has exactly N nodes, node k
\* carries the record the parser made for the k-th <library> element (the
\* k-th entry of the parsed list, holding that element's bases), in
\* document order; and no handler rejects a valid description.
C1_NodesInDocumentOrder ==
    [][ /\ (pc = "parsed" /\ pc' = "idle") =>
              /\ ValidDescription(doc)
              /\ Len(so_list') = Len(doc.libs)
              /\ \A k \in 1..Len(doc.libs) :
                    /\ so_list'[k].lm_info = result[k]
                    /\ so_list'[k].lm_info \in DOMAIN lm_info'
                    /\ RecordOf(lm_info'[so_list'[k].lm_info], doc.libs[k])
                    /\ \A m \in 1..Len(doc.libs) :
                          m # k => so_list'[m].lm_info # so_list'[k].lm_info
        /\ xml_error' \in {ErrMixed, ErrNoBases, ErrVersion} =>
              ~ValidDescription(doc')
      ]_vars

\* C1 witness: a list of two nodes was built from a description of two
\* libraries with different names and different kinds of bases.
C1_Witness ==
    /\ pc = "idle"
    /\ xml_error = ""
    /\ Len(doc.libs) = 2
    /\ Len(so_list) = 2
    /\ doc.libs[1].name # doc.libs[2].name
    /\ ChildKinds(doc.libs[1]) = {"segment"}
    /\ ChildKinds(doc.libs[2]) = {"section"}
    /\ lm_info[so_list[2].lm_info].section_bases = ChildAddresses(doc.libs[2])

\* The text a name buffer must hold for a library name.
ExpectedName(name) ==
    IF Len(name) < SO_NAME_MAX_PATH_SIZE THEN name
    ELSE SubSeq(name, 1, SO_NAME_MAX_PATH_SIZE - 1)

\* C2: every node solib_target_current_sos builds has the same text in
\* so_name and so_original_name: the library's name when it is shorter than
\* SO_NAME_MAX_PATH_SIZE, else its first SO_NAME_MAX_PATH_SIZE - 1
\* characters, with a NUL right after the text.
C2_NamesCopiedOrTruncated ==
    [][ (pc = "parsed" /\ pc' = "idle") =>
            \A k \in 1..Len(so_list') :
                LET text == ExpectedName(doc.libs[k].name)
                    so == so_list'[k]
                IN  /\ CString(so.so_name) = text
                    /\ CString(so.so_original_name) = text
                    /\ Len(so.so_name) = SO_NAME_MAX_PATH_SIZE
                    /\ Len(so.so_original_name) = SO_NAME_MAX_PATH_SIZE
                    /\ so.so_name[Len(text) + 1] = 0
                    /\ so.so_original_name[Len(text) + 1] = 0
      ]_vars

\* C2 witness: a list with a node whose name was truncated and a node whose
\* name, one character shorter than the buffer, was copied whole.
C2_Witness ==
    /\ pc = "idle"
    /\ xml_error = ""
    /\ Len(doc.libs) = 2
    /\ Len(so_list) = 2
    /\ Len(doc.libs[1].name) > SO_NAME_MAX_PATH_SIZE
    /\ Len(CString(so_list[1].so_name)) = SO_NAME_MAX_PATH_SIZE - 1
    /\ Len(doc.libs[2].name) = SO_NAME_MAX_PATH_SIZE - 1
    /\ CString(so_list[2].so_name) = doc.libs[2].name

\* C3: a <library> with children of both kinds fails the parse of the whole
\* document with the both-kinds error, the enumeration returns no node, and
\* no record ever has both segment_bases and section_bases non-empty.
C3_MixedBasesRejected ==
    /\ \A a \in DOMAIN lm_info :
          lm_info[a].segment_bases = << >> \/ lm_info[a].section_bases = << >>
    /\ (\E l \in 1..Len(doc.libs) : MixedLibrary(doc.libs[l])) =>
          /\ pc \in {"failed", "idle"}
          /\ xml_error = ErrMixed
          /\ so_list = << >>
          /\ pc = "idle" => DOMAIN lm_info = {}

\* C3 witness: the enumeration has returned for a document whose second
\* library got a <section> after a <segment>, the first library being
\* complete.
C3_Witness ==
    /\ pc = "idle"
    /\ Len(doc.libs) = 2
    /\ doc.libs[1].closed
    /\ Len(doc.libs[2].children) = 2
    /\ doc.libs[2].children[1].kind = "segment"
    /\ doc.libs[2].children[2].kind = "section"
    /\ xml_error = ErrMixed

\* C4: a <library> that closes with no <segment> and no <section> child
\* fails the parse, and every record of a list parsed so far without error,
\* or handed to a node, has at least one base address.
C4_EmptyLibraryRejected ==
    /\ (\E l \in 1..Len(doc.libs) :
           doc.libs[l].closed /\ doc.libs[l].children = << >>) =>
          /\ pc \in {"failed", "idle"}
          /\ xml_error = ErrNoBases
          /\ so_list = << >>
    /\ pc \in {"list", "parsed"} =>
          \A k \in 1..Len(result) :
              Len(lm_info[result[k]].segment_bases)
                  + Len(lm_info[result[k]].section_bases) >= 1
    /\ \A k \in 1..Len(so_list) :
          Len(lm_info[so_list[k].lm_info].segment_bases)
              + Len(lm_info[so_list[k].lm_info].section_bases) >= 1

\* C4 witness: the enumeration has returned for a document whose second
\* library closed without children.
C4_Witness ==
    /\ pc = "idle"
    /\ Len(doc.libs) = 2
    /\ doc.libs[2].closed
    /\ doc.libs[2].children = << >>
    /\ xml_error = ErrNoBases

\* C5: a root with version "2.0" fails the parse at the root, before any
\* of the rest of the document is read, and nothing is returned; a root
\* with no version or with version "1.0" raises no version error and the
\* parser goes on into the list.
C5_VersionChecked ==
    /\ doc.version = "2.0" =>
          /\ pc \in {"failed", "idle"}
          /\ xml_error = ErrVersion
          /\ doc.libs = << >>
          /\ result = << >>
          /\ so_list = << >>
    /\ doc.version \in {VersionAbsent, "1.0"} =>
          /\ xml_error # ErrVersion
          /\ pc # "root"
          /\ xml_error = "" => pc \in {"list", "library", "parsed", "idle"}
    /\ pc \in {"list", "library", "parsed"} =>
          doc.version \in {VersionAbsent, "1.0"}

\* C5 witness: the enumeration has returned for a document of version "2.0".
C5_Witness ==
    /\ pc = "idle"
    /\ doc.version = "2.0"
    /\ xml_error = ErrVersion

\* C6: once a parse error was raised, whatever was accepted before, the
\* enumeration returns with every record of that parse freed, no list and
\* no node.
C6_ParseAllOrNothing ==
    /\ (pc = "idle" /\ xml_error # "") =>
          /\ DOMAIN lm_info = {}
          /\ result = << >>
          /\ so_list = << >>
    /\ pc = "failed" => xml_error # "" /\ so_list = << >>

\* C6 witness: the enumeration has returned after an error in the second
\* library of a document whose first library had been accepted.
C6_Witness ==
    /\ pc = "idle"
    /\ xml_error # ""
    /\ Len(doc.libs) = 2
    /\ doc.libs[1].closed
    /\ doc.libs[1].children # << >>

(***************************************************************************)
(* The properties of the relocation, under SpecReloc.                      *)
(***************************************************************************)
Min(S) == CHOOSE x \in S : \A y \in S : x <= y

\* The sections of a file with SEC_ALLOC set, by their place (from 1).
AllocSections(abfd) ==
    { k \in 1..Len(abfd.sections) : abfd.sections[k].alloc }

\* The place of SEC_ALLOC section k among the SEC_ALLOC sections (from 1):
\* the entry of section_bases that corresponds to it.
AllocRank(abfd, k) == Cardinality({ m \in AllocSections(abfd) : m <= k })

\* Node n has section bases, as many as its file has SEC_ALLOC sections,
\* and its first relocation has happened.
SectionsRelocated(n) ==
    LET li == lm_info[so_list[n].lm_info]
    IN  /\ li.section_bases # << >>
        /\ Cardinality(AllocSections(so_list[n].abfd)) = Len(li.section_bases)
        /\ li.offsets # NULL

\* The offset table of node n.
OffsetTable(n) ==
    section_offsets[lm_info[so_list[n].lm_info].offsets.at].offsets

\* C7: with section bases and a matching count of SEC_ALLOC sections, after
\* the first relocation the offset table gives the k-th SEC_ALLOC section
\* of the file the offset section_bases[k] and every other section 0.
C7_OffsetsFollowSectionBases ==
    \A n \in 1..Len(so_list) :
        SectionsRelocated(n) =>
            \A k \in 1..Len(so_list[n].abfd.sections) :
                OffsetTable(n)[k] =
                    IF k \in AllocSections(so_list[n].abfd)
                    THEN lm_info[so_list[n].lm_info].section_bases[
                             AllocRank(so_list[n].abfd, k)]
                    ELSE 0

\* The SEC_ALLOC sections of a file that have a size.
SizedSections(abfd) == { k \in AllocSections(abfd) : abfd.sections[k].size > 0 }

\* C8: with section bases and a matching count, after a first relocation
\* that ran to its end, addr_low is the least base and addr_high the
\* greatest base + size - 1 over the SEC_ALLOC sections that have a size,
\* the base of a section being the entry of section_bases that corresponds
\* to it (the one used as its offset), wherever the other sections lie;
\* (0, 0) when no SEC_ALLOC section has a size.
C8_RangeBoundsSizedSections ==
    \A n \in 1..Len(so_list) :
        (SectionsRelocated(n) /\ ~internal_error) =>
            LET abfd == so_list[n].abfd
                bases == lm_info[so_list[n].lm_info].section_bases
                sized == SizedSections(abfd)
            IN  IF sized = {}
                THEN so_list[n].addr_low = 0 /\ so_list[n].addr_high = 0
                ELSE /\ so_list[n].addr_low =
                          Min({ bases[AllocRank(abfd, k)] : k \in sized })
                     /\ so_list[n].addr_high =
                          Max({ CoreAddr(bases[AllocRank(abfd, k)]
                                         + abfd.sections[k].size - 1) :
                                k \in sized })

\* C9: with section bases and a count of SEC_ALLOC sections that differs
\* from the number of bases, the first relocation fails no assertion,
\* issues the warning, leaves the range at (0, 0) and every offset at 0,
\* and every relocated section keeps its addr and endaddr.
C9_MismatchLeavesUnrelocated ==
    \A n \in 1..Len(so_list) :
        LET li == lm_info[so_list[n].lm_info]
            abfd == so_list[n].abfd
        IN  ( /\ li.section_bases # << >>
              /\ Cardinality(AllocSections(abfd)) # Len(li.section_bases)
              /\ li.offsets # NULL ) =>
                /\ ~internal_error
                /\ warnings[WarnAllocCount] = 1
                /\ so_list[n].addr_low = 0
                /\ so_list[n].addr_high = 0
                /\ \A k \in 1..Len(abfd.sections) : OffsetTable(n)[k] = 0
                /\ target_sections[n] = TargetSections(abfd)

\* C9 witness: two sections of a file with more SEC_ALLOC sections than
\* the library has bases were relocated.
C9_Witness ==
    /\ num_relocs = 2
    /\ lm_info[1].section_bases = << 2 >>
    /\ Cardinality(AllocSections(so_list[1].abfd)) = 2
    /\ lm_info[1].offsets # NULL
    /\ warnings[WarnAllocCount] = 1

\* C10: the offset table, the node's range and the warning are made by the
\* first relocate call for a record and by no later one: a call for a
\* record that has its table changes no record, no table, no node and
\* issues no warning (it only adds the looked-up offset to the section),
\* after a mismatch, a mapping failure or a failed assertion too; and the
\* first call always leaves the record with a table.
C10_OffsetsBuiltOnce ==
    [][ \A n \in 1..Len(so_list) :
            LET li == lm_info[so_list[n].lm_info]
            IN  /\ li.offsets # NULL =>
                      /\ lm_info' = lm_info
                      /\ section_offsets' = section_offsets
                      /\ so_list' = so_list
                      /\ warnings' = warnings
                      /\ internal_error' = internal_error
                      /\ \E j \in 1..Len(target_sections[n]) :
                            target_sections' =
                                [target_sections EXCEPT
                                    ![n][j].addr =
                                        CoreAddr(@ + OffsetTable(n)[j]),
                                    ![n][j].endaddr =
                                        CoreAddr(@ + OffsetTable(n)[j])]
                /\ li.offsets = NULL =>
                      /\ lm_info'[so_list[n].lm_info].offsets # NULL
                      /\ Cardinality(DOMAIN section_offsets') = 1
      ]_vars

\* C10 witness: a second call was made for a record whose first call had
\* warned of a mismatch.
C10_Witness ==
    /\ num_relocs = 2
    /\ lm_info[1].offsets # NULL
    /\ warnings[WarnAllocCount] = 1

\* Node n has segment bases, its file has segment data, and its first
\* relocation has happened.
SegmentsRelocated(n) ==
    LET li == lm_info[so_list[n].lm_info]
    IN  /\ li.segment_bases # << >>
        /\ so_list[n].abfd.segment_data # NULL
        /\ li.offsets # NULL

\* The segments of the file (C indices) that have a reported base.
ReportedSegments(li, data) ==
    { i \in 0..(Len(data.segment_bases) - 1) : i < Len(li.segment_bases) }

\* Every reported segment has the delta of segment 0.
DeltasAgree(li, data) ==
    \A i \in ReportedSegments(li, data) :
        SegmentDelta(li, data, i) = SegmentDelta(li, data, 0)

\* C11: with segment bases whose reported deltas all equal the delta D of
\* segment 0, after a first relocation that ran to its end the range is
\* addr_low = segment_bases[0] and addr_high = D + file base of the last
\* segment + size of the last segment - 1.
C11_SegmentRangeInclusive ==
    \A n \in 1..Len(so_list) :
        LET li == lm_info[so_list[n].lm_info]
            data == so_list[n].abfd.segment_data
        IN  ( /\ SegmentsRelocated(n)
              /\ so_list[n].abfd.map_ok
              /\ ~internal_error
              /\ DeltasAgree(li, data) ) =>
                LET last == Len(data.segment_bases)
                IN  /\ so_list[n].addr_low = li.segment_bases[1]
                    /\ so_list[n].addr_high =
                          CoreAddr(SegmentDelta(li, data, 0)
                                   + data.segment_bases[last]
                                   + data.segment_sizes[last] - 1)

\* The range the code leaves in the case of C11: the end of the last
\* segment as base + size, one past its last byte.
C11_SegmentRangeOnePast ==
    \A n \in 1..Len(so_list) :
        LET li == lm_info[so_list[n].lm_info]
            data == so_list[n].abfd.segment_data
        IN  ( /\ SegmentsRelocated(n)
              /\ so_list[n].abfd.map_ok
              /\ ~internal_error
              /\ DeltasAgree(li, data) ) =>
                LET last == Len(data.segment_bases)
                IN  /\ so_list[n].addr_low = li.segment_bases[1]
                    /\ so_list[n].addr_high =
                          CoreAddr(SegmentDelta(li, data, 0)
                                   + data.segment_bases[last]
                                   + data.segment_sizes[last])


\* C12: whatever the bases of the record and the layout of the file, no
\* gdb_assert (low <= high) of the relocation fails, also when base + size
\* or base + size + delta wraps around the address width, and every node
\* has addr_low <= addr_high.
C12_NoAssertionFails ==
    /\ ~internal_error
    /\ \A n \in 1..Len(so_list) : so_list[n].addr_low <= so_list[n].addr_high


\* The segment mapping of node n has failed: its first relocation has
\* happened for segment bases and the file has no segment data, or
\* symfile_map_offsets_to_segments reported failure.
MappingFailed(n) ==
    LET li == lm_info[so_list[n].lm_info]
        abfd == so_list[n].abfd
    IN  /\ li.segment_bases # << >>
        /\ li.offsets # NULL
        /\ abfd.segment_data = NULL \/ ~abfd.map_ok

\* C13: with segment bases, when the segment mapping fails (no segment
\* data in the file, or symfile_map_offsets_to_segments reports failure)
\* only a warning is issued and the library is left un-relocated: no
\* assertion fails and the node keeps the default range (0, 0), which is
\* not derived from the segment bases.
C13_MappingFailureKeepsDefaults ==
    \A n \in 1..Len(so_list) :
        MappingFailed(n) =>
            /\ warnings[WarnNoSegments] + warnings[WarnBadOffsets] = 1
            /\ ~internal_error
            /\ so_list[n].addr_low = 0
            /\ so_list[n].addr_high = 0


(***************************************************************************)
(* The parser without XML support, under Spec.                             *)
(***************************************************************************)
\* C14: without XML support, over any sequence of enumerations the
\* warning of the parser is issued exactly once, by its first call (every
\* call of the parser leaves the count of that warning at 1, and the
\* count is 0 before the first), and every enumeration returns no data:
\* no list, no record, no node.
C14_WarnsOnceReturnsNothing ==
    [][ ~have_libexpat =>
            /\ parse_libraries_no_expat => warnings'[WarnNoXml] = 1
            /\ ~have_warned => warnings[WarnNoXml] = 0
            /\ warnings'[WarnNoXml] <= 1
            /\ pc' = "idle"
            /\ result' = << >>
            /\ so_list' = << >>
            /\ DOMAIN lm_info' = {}
      ]_vars

\* C14 witness: without XML support two enumerations have returned and the
\* warning was issued once.
C14_Witness ==
    /\ ~have_libexpat
    /\ num_enums = 2
    /\ have_warned
    /\ warnings[WarnNoXml] = 1
    /\ so_list = << >>


\* The file segments i >= 1 (C indices) with a reported base whose delta
\* differs from the delta of segment 0.
DifferingSegments(li, data) ==
    { i \in ReportedSegments(li, data) :
        i >= 1 /\ SegmentDelta(li, data, i) # SegmentDelta(li, data, 0) }

\* The last segment (C index) of the run that starts at segment 0.
RunLast(li, data) ==
    IF DifferingSegments(li, data) = {} THEN Len(data.segment_bases) - 1
    ELSE Min(DifferingSegments(li, data)) - 1

\* C15: in the segment branch the range is that of the run that starts at
\* segment 0 and ends just before the first file segment i >= 1 with a
\* reported base whose delta differs from the delta of segment 0, the
\* segments without a reported base being in the run: addr_low is
\* segment_bases[0] and addr_high the end the code gives the last segment
\* of that run, the file's last segment when all reported deltas agree.
C15_RunOfEqualDeltas ==
    \A n \in 1..Len(so_list) :
        SegmentsRelocated(n) =>
            LET li == lm_info[so_list[n].lm_info]
                data == so_list[n].abfd.segment_data
                last == RunLast(li, data)
            IN  /\ so_list[n].addr_low = li.segment_bases[1]
                /\ so_list[n].addr_high =
                      CoreAddr(data.segment_bases[last + 1]
                               + data.segment_sizes[last + 1]
                               + SegmentDelta(li, data, 0))
                /\ DeltasAgree(li, data) => last = Len(data.segment_bases) - 1

\* C15 witness: a library with two reported bases of different deltas was
\* relocated against a file of two segments, and the range ends with the
\* first segment, short of the end of the second.
C15_Witness ==
    /\ Len(so_list) = 1
    /\ SegmentsRelocated(1)
    /\ Len(lm_info[1].segment_bases) = 2
    /\ Len(so_list[1].abfd.segment_data.segment_bases) = 2
    /\ RunLast(lm_info[1], so_list[1].abfd.segment_data) = 0
    /\ so_list[1].addr_high #
          CoreAddr(so_list[1].abfd.segment_data.segment_bases[2]
                   + so_list[1].abfd.segment_data.segment_sizes[2]
                   + SegmentDelta(lm_info[1], so_list[1].abfd.segment_data, 0))


(***************************************************************************)
(* The properties of the life of a list, under SpecLife.                   *)
(***************************************************************************)
\* The records the nodes of the list are attached to.
AttachedRecords == { so_list[k].lm_info : k \in 1..Len(so_list) }

\* C16: after any sequence of enumerations, relocations and releases, the
\* record of every node of the list is live and has an empty name, so that
\* the assertion of solib_target_free_so holds for whichever node is freed
\* (none has failed); no two nodes share a record, and outside a parse the
\* live records are exactly those of the nodes, so that freeing every node
\* once deletes every record once and leaves none.
C16_RecordsOwnedNamesCleared ==
    /\ \A k \in 1..Len(so_list) :
          /\ so_list[k].lm_info \in DOMAIN lm_info
          /\ lm_info[so_list[k].lm_info].name = << >>
          /\ \A m \in 1..Len(so_list) :
                m # k => so_list[m].lm_info # so_list[k].lm_info
    /\ ~internal_error
    /\ pc = "idle" => DOMAIN lm_info = AttachedRecords

\* C16 witness: of a list of two nodes, one of them relocated, one node
\* was freed and the other is left with its record.
C16_Witness ==
    /\ pc = "idle"
    /\ Len(doc.libs) = 2
    /\ Len(so_list) = 1
    /\ num_relocs >= 1
    /\ DOMAIN section_offsets # {}
    /\ Cardinality(DOMAIN lm_info) = 1


\* C17: a relocate call that returns adds one value, the entry of the
\* record's offset table at the index of the section in its file, to both
\* addr and endaddr of that section (endaddr - addr is what it was), and
\* changes no other section, of this file or another; no call changes
\* another library's node or record, an existing offset table, or the set
\* of live records; a call cut short by a failed assertion changes no
\* section.
C17_SameOffsetBothEnds ==
    [][ num_relocs' # num_relocs =>
            \E n \in 1..Len(so_list) :
                \E j \in 1..Len(target_sections[n]) :
                    LET rec == so_list[n].lm_info
                        table == section_offsets'[lm_info'[rec].offsets.at]
                        offset == table.offsets[j]
                        sec == target_sections[n][j]
                    IN  /\ lm_info'[rec].offsets # NULL
                        /\ IF internal_error' # internal_error
                           THEN target_sections' = target_sections
                           ELSE /\ target_sections' =
                                      [target_sections EXCEPT
                                          ![n][j] =
                                              [addr |-> CoreAddr(sec.addr + offset),
                                               endaddr |->
                                                   CoreAddr(sec.endaddr + offset)]]
                                /\ CoreAddr(target_sections'[n][j].endaddr
                                            - target_sections'[n][j].addr
                                            + AddrMod)
                                      = CoreAddr(sec.endaddr - sec.addr + AddrMod)
                        /\ Len(so_list') = Len(so_list)
                        /\ \A m \in 1..Len(so_list) :
                              m # n => so_list'[m] = so_list[m]
                        /\ DOMAIN lm_info' = DOMAIN lm_info
                        /\ \A a \in DOMAIN lm_info :
                              a # rec => lm_info'[a] = lm_info[a]
                        /\ \A t \in DOMAIN section_offsets :
                              section_offsets'[t] = section_offsets[t]
      ]_vars

\* C17 witness: of two nodes with their files open, one section of the
\* first was relocated by a non-zero offset and the sections of the second
\* are where they were.
C17_Witness ==
    /\ Len(so_list) = 2
    /\ Opened = {1, 2}
    /\ num_relocs = 1
    /\ lm_info[so_list[1].lm_info].offsets # NULL
    /\ lm_info[so_list[2].lm_info].offsets = NULL
    /\ target_sections[1] # TargetSections(so_list[1].abfd)
    /\ target_sections[2] = TargetSections(so_list[2].abfd)


\* C18: the registration makes solib_target_so_ops the implementation in
\* use only when none is set, and leaves current_target_so_ops as it is
\* when another implementation is in use; no other operation (enumeration,
\* relocation, release, create-inferior hook, clear) ever assigns it.
C18_RegisteredOnlyWhenUnset ==
    [][ IF pc = "startup"
        THEN IF current_target_so_ops = NULL
             THEN current_target_so_ops' = PointerTo(solib_target_so_ops)
             ELSE current_target_so_ops' = current_target_so_ops
        ELSE current_target_so_ops' = current_target_so_ops
      ]_vars

\* C18 witness: started with another implementation in use, the debugger
\* has registered, enumerated, relocated and freed a node, and the other
\* implementation is still the one in use.
C18_Witness ==
    /\ current_target_so_ops = PointerTo(other_so_ops)
    /\ pc = "idle"
    /\ num_enums >= 1
    /\ num_relocs >= 1
    /\ so_list = << >>


\* C19: in the section branch with a matching count, every read of
\* section_bases, for the range and for the offsets, is at an index in
\* [0, section_bases.size ()), whatever the file, also when sections
\* without SEC_ALLOC come before sections with it: no read is past the end.
C19_SectionBasesReadInRange == ~reads_past_end


\* The offset tables the live records point to.
OwnedTables ==
    { lm_info[a].offsets.at : a \in { r \in DOMAIN lm_info :
                                         lm_info[r].offsets # NULL } }

\* C20: an offset table does not outlive the record that computed it:
\* after any sequence of enumerations, relocations and releases every
\* allocated table is the table of a live record, solib_target_free_so
\* having released the table of the record it deleted.
C20_TablesFreedWithRecords == DOMAIN section_offsets = OwnedTables

=============================================================================
